---- MODULE Spec2Model ----
(***************************************************************************)
(* Model of the admin dashboard's data layer (src/App.tsx): the account    *)
(* cache (fetchAllUsers), the row fetch and relation view builder          *)
(* (fetchData) and the React state they write.                             *)
(*                                                                         *)
(* Encoding of JavaScript values:                                          *)
(*   - a nullable / optional value is a sequence of length <= 1:           *)
(*     <<>> is null (or undefined), <<v>> is the value v;                  *)
(*   - a string that is compared with < (an email) is the sequence of its  *)
(*     UTF-16 code units, so "" is <<>> and "a" < "ab" < "b" is            *)
(*     <<1>> < <<1, 2>> < <<2>>;                                           *)
(*   - an object (a row, an account) is a function from its keys.          *)
(***************************************************************************)
EXTENDS Integers, Sequences, FiniteSets, TLC

VARIABLES
    \* ---- React state of App (src/App.tsx:67-82)
    selectedTable, data, loading, error, headers, allUsers, toast,
    \* ---- calls suspended at an await
    fetches,        \* fetchData calls awaiting the gateway's response
    refreshes,      \* fetchAllUsers calls awaiting a listUsers page
    \* ---- bookkeeping of the run
    mounted,        \* whether the mount effects have run
    nextId,         \* number of calls started so far (names the next call)
    selects,        \* number of table selections so far
    lastFetch,      \* what the fetchData call that completed last did
    lastRefresh,    \* what the fetchAllUsers call that completed last did
    \* ---- dialogs: React state of App (src/App.tsx:75-79) and of the dialogs
    isEditAddModalOpen, isUserModalOpen, isAddUserModalOpen, modalMode,
    currentRow,
    addUserError,   \* error of AddUserModal (src/components/AddUserModal.tsx:16)
    userModalError, \* error of UserManagementModal (UserManagementModal.tsx:22)
    formData,       \* formData of EditAddModal (src/components/EditAddModal.tsx:36)
    \* ---- mutation handlers suspended at an await
    mutations,      \* handlers awaiting the gateway's answer to a mutation
    awaited,        \* fetchAllUsers calls awaited by a handler that then
                    \* clears the loading flag
    submits,        \* number of mutations issued so far
    lastMutation,   \* what the mutation handler that resumed last did
    \* ---- the view builder applied to drawn inputs (specification SpecView)
    vTable, vRows, vUsers, vView

dialogFrame == << isEditAddModalOpen, isUserModalOpen, isAddUserModalOpen,
                  modalMode, currentRow, addUserError, userModalError >>
dialogVars == << dialogFrame, formData >>
mutVars == << mutations, submits, lastMutation >>
appVars == << selectedTable, data, loading, error, headers, allUsers, toast,
              fetches, refreshes, mounted, nextId, selects, lastFetch,
              lastRefresh, dialogVars, mutVars, awaited >>
viewVars == << vTable, vRows, vUsers, vView >>
vars == << selectedTable, data, loading, error, headers, allUsers, toast,
           fetches, refreshes, mounted, nextId, selects, lastFetch,
           lastRefresh, isEditAddModalOpen, isUserModalOpen,
           isAddUserModalOpen, modalMode, currentRow, addUserError,
           userModalError, formData, mutations, awaited, submits,
           lastMutation, vTable, vRows, vUsers, vView >>

----------------------------------------------------------------------------
(* Bounds of the model *)

MaxRows == 2        \* rows in one response of the gateway
MaxRowId == 2       \* primary keys are 0 .. MaxRowId
MaxPageLen == 2     \* accounts in one page of the identity store
MaxAppRows == 1     \* rows (and the largest primary key) in a response to App
MaxSelects == 1     \* table selections of the operator

----------------------------------------------------------------------------
(* Values *)

Null == << >>
Some(v) == << v >>

\* The object {}
EmptyObject == [ c \in {} |-> Null ]

UserIds == {"u1", "u2"}

\* an account's email: undefined, "", "a", "ab", "b"
Emails == { Null, Some(<< >>), Some(<<1>>), Some(<<1, 2>>), Some(<<2>>) }

Accounts == [id : UserIds, email : Emails]

RowIds == 0 .. MaxRowId

RECURSIVE SeqToSet(_)
SeqToSet(s) == IF s = << >> THEN {} ELSE {Head(s)} \cup SeqToSet(Tail(s))

SeqsUpTo(S, n) == UNION { [1 .. k -> S] : k \in 0 .. n }

\* No two elements (rows, accounts) share an id: id is a primary key.
DistinctIds(s) ==
    \A i, j \in 1 .. Len(s) : s[i]["id"] = s[j]["id"] => i = j

\* Account lists the identity store can return: ids are its primary key.
Snapshots ==
    { s \in SeqsUpTo(Accounts, Cardinality(UserIds)) : DistinctIds(s) }

----------------------------------------------------------------------------
(* Relations *)

managedTables == << "subscriptions", "referral_usage", "user_progress", "users" >>

DenormTables == {"subscriptions", "user_progress"}

\* Columns of each relation's rows, in the order the gateway returns them.
TableColumns(t) ==
    CASE t = "subscriptions" ->
            << "id", "user_id", "plan", "status", "start_date", "end_date",
               "created_at" >>
      [] t = "referral_usage" ->
            << "id", "referral_code", "user_id", "used_at", "details" >>
      [] t = "user_progress" ->
            << "id", "user_id", "course_id", "lesson_id",
               "progress_percentage", "completed_at", "created_at",
               "updated_at" >>

schemaHeaders(t) ==
    CASE t = "subscriptions" ->
            << "id", "user_id", "plan", "status", "start_date", "end_date",
               "created_at" >>
      [] t = "user_progress" ->
            << "id", "user_id", "course_id", "lesson_id",
               "progress_percentage", "completed_at", "created_at",
               "updated_at" >>
      [] OTHER -> << >>

\* A row of relation t as the gateway returns it.
MkRow(t, id, uid) ==
    [ c \in SeqToSet(TableColumns(t)) |->
        IF c = "id" THEN Some(id)
        ELSE IF c = "user_id" THEN Some(uid)
        ELSE Some("v") ]

RowsOf(t) == { MkRow(t, id, uid) : id \in RowIds, uid \in UserIds }

\* Responses of select('*'): any order, primary keys distinct.
RowSeqs(t) == { s \in SeqsUpTo(RowsOf(t), MaxRows) : DistinctIds(s) }

\* Object.keys(row): the row's keys in the order the gateway sent them.
ObjectKeys(t, r) == SelectSeq(TableColumns(t), LAMBDA c : c \in DOMAIN r)

----------------------------------------------------------------------------
(* fetchData: the relation view builder, src/App.tsx:145-191 *)

\* JavaScript truthiness of a number-or-null: null and 0 are falsy.
Truthy(x) == x # Null /\ x[1] # 0

\* s < t on strings (code-unit lexicographic order).
RECURSIVE StrLess(_, _)
StrLess(s, t) ==
    IF t = << >> THEN FALSE
    ELSE IF s = << >> THEN TRUE
    ELSE IF s[1] < t[1] THEN TRUE
    ELSE IF s[1] > t[1] THEN FALSE
    ELSE StrLess(Tail(s), Tail(t))

\* x || '' on a string-or-undefined: undefined and '' both give ''.
OrEmpty(x) == IF x = Null THEN << >> ELSE x[1]

\* dataByUser.get(uid): the fetched rows of one user, in fetch order.
dataByUser(tableData, uid) ==
    SelectSeq(tableData, LAMBDA r : r["user_id"] = Some(uid))

\* Variant of actualHeaders: no fallback for a relation without rows.
actualHeadersNoFallback(t, tableData) ==
    IF Len(tableData) > 0 THEN ObjectKeys(t, tableData[1]) ELSE << >>

actualHeaders(t, tableData) ==
    IF Len(tableData) > 0 THEN ObjectKeys(t, tableData[1]) ELSE schemaHeaders(t)

placeholderRow(user, hdrs) ==
    [ c \in {"user_id", "id"} \cup SeqToSet(hdrs) |->
        IF c = "user_id" THEN Some(user.id) ELSE Null ]

\* Variants of RowsForUser with a slip in them.
RowsForUserNoPlaceholder(user, tableData, hdrs) ==
    dataByUser(tableData, user.id)

RowsForUserAlwaysPlaceholder(user, tableData, hdrs) ==
    dataByUser(tableData, user.id) \o << placeholderRow(user, hdrs) >>

RowsForUserFirstOnly(user, tableData, hdrs) ==
    LET userRecords == dataByUser(tableData, user.id)
    IN  IF Len(userRecords) > 0 THEN << userRecords[1] >>
        ELSE << placeholderRow(user, hdrs) >>

\* The rows pushed for one account of the snapshot, src/App.tsx:167-176.
RowsForUser(user, tableData, hdrs) ==
    LET userRecords == dataByUser(tableData, user.id)
    IN  IF Len(userRecords) > 0 THEN userRecords
        ELSE << placeholderRow(user, hdrs) >>

RECURSIVE displayDataOf(_, _, _)
displayDataOf(users, tableData, hdrs) ==
    IF users = << >> THEN << >>
    ELSE RowsForUser(Head(users), tableData, hdrs)
            \o displayDataOf(Tail(users), tableData, hdrs)

\* userEmailMap.get(uid) || '': the last account with that id decides.
RECURSIVE userEmailMapGet(_, _)
userEmailMapGet(users, uid) ==
    IF users = << >> THEN << >>
    ELSE IF uid = Some(users[Len(users)].id)
         THEN OrEmpty(users[Len(users)].email)
         ELSE userEmailMapGet(SubSeq(users, 1, Len(users) - 1), uid)

\* The comparator handed to displayData.sort.
compareRows(users, a, b) ==
    LET emailA == userEmailMapGet(users, a["user_id"])
        emailB == userEmailMapGet(users, b["user_id"])
    IN  IF StrLess(emailA, emailB) THEN -1
        ELSE IF StrLess(emailB, emailA) THEN 1
        ELSE IF Truthy(a["id"]) /\ Truthy(b["id"]) THEN a["id"][1] - b["id"][1]
        ELSE IF Truthy(a["id"]) THEN -1
        ELSE IF Truthy(b["id"]) THEN 1
        ELSE 0

\* Array.prototype.sort is stable; the comparator is a consistent one on the
\* rows of the model, so every stable sort gives this result.
RECURSIVE InsertSorted(_, _, _)
InsertSorted(users, sorted, x) ==
    IF sorted = << >> THEN << x >>
    ELSE LET last == sorted[Len(sorted)]
         IN  IF compareRows(users, last, x) > 0
             THEN Append(InsertSorted(users, SubSeq(sorted, 1, Len(sorted) - 1), x),
                         last)
             ELSE Append(sorted, x)

RECURSIVE SortRows(_, _)
SortRows(users, s) ==
    IF s = << >> THEN << >>
    ELSE InsertSorted(users, SortRows(users, SubSeq(s, 1, Len(s) - 1)), s[Len(s)])

\* The view of a denormalized relation: what setHeaders and setData receive.
BuildView(t, tableData, users) ==
    LET hdrs == actualHeaders(t, tableData)
    IN  [ headers |-> hdrs,
          data |-> SortRows(users, displayDataOf(users, tableData, hdrs)) ]

----------------------------------------------------------------------------
(* The view builder on drawn inputs *)

InitView ==
    /\ vTable \in DenormTables
    /\ vRows \in RowSeqs(vTable)
    /\ vUsers \in Snapshots
    /\ vView = Null

ApplyBuildView ==
    /\ vView = Null
    /\ vView' = Some(BuildView(vTable, vRows, vUsers))
    /\ UNCHANGED << vTable, vRows, vUsers >>

----------------------------------------------------------------------------
(* App: state after construction, src/App.tsx:67-82 *)

InitApp ==
    /\ selectedTable = managedTables[1]
    /\ data = << >>
    /\ loading = TRUE
    /\ error = Null
    /\ headers = << >>
    /\ allUsers = << >>
    /\ toast = Null
    /\ fetches = {}
    /\ refreshes = {}
    /\ mounted = FALSE
    /\ nextId = 1
    /\ selects = 0
    /\ lastFetch = Null
    /\ lastRefresh = Null
    /\ isEditAddModalOpen = FALSE
    /\ isUserModalOpen = FALSE
    /\ isAddUserModalOpen = FALSE
    /\ modalMode = "add"
    /\ currentRow = Null
    /\ addUserError = Null
    /\ userModalError = Null
    /\ formData = EmptyObject
    /\ mutations = {}
    /\ awaited = {}
    /\ submits = 0
    /\ lastMutation = Null

isUsersTable(t) == t = "users"

\* No dialog covers the page: each dialog is a full-screen overlay
\* (src/components/EditAddModal.tsx:95, AddUserModal.tsx:53,
\* UserManagementModal.tsx:61), rendered at src/App.tsx:549-579.
NoDialog ==
    /\ ~isEditAddModalOpen
    /\ ~(isUserModalOpen /\ currentRow # Null)
    /\ ~isAddUserModalOpen

\* src/components/EditAddModal.tsx:18
IGNORED_COLUMNS == {"id", "inserted_at", "updated_at", "created_at"}

\* src/components/EditAddModal.tsx:39
formColumns(columns) == SelectSeq(columns, LAMBDA col : col \notin IGNORED_COLUMNS)

\* The starting template of the details field (EditAddModal.tsx:62-64), a
\* JSON object.
DetailsTemplate == "{}"

\* Variant of FormEffect: in edit mode the form is filled with every key of
\* the row.
FormEffectWholeRow(mode, initialData, columns, tableName) ==
    IF mode = "edit" /\ initialData # Null
    THEN [ col \in DOMAIN initialData[1] |->
             IF initialData[1][col] # Null THEN initialData[1][col]
             ELSE Some("") ]
    ELSE LET init == IF initialData = Null THEN EmptyObject ELSE initialData[1]
         IN  [ col \in SeqToSet(formColumns(columns)) \cup DOMAIN init |->
                 IF col \in DOMAIN init THEN init[col] ELSE Some("") ]

\* What the dialog's effect hands to setFormData,
\* src/components/EditAddModal.tsx:41-68: value ?? '' of each form column of
\* the row in edit mode, blanks merged with the pre-filled data otherwise.
FormEffect(mode, initialData, columns, tableName) ==
    IF mode = "edit" /\ initialData # Null
    THEN [ col \in SeqToSet(formColumns(columns)) |->
             IF col \in DOMAIN initialData[1] /\ initialData[1][col] # Null
             THEN initialData[1][col]
             ELSE Some("") ]
    ELSE LET init == IF initialData = Null THEN EmptyObject ELSE initialData[1]
         IN  [ col \in SeqToSet(formColumns(columns)) \cup DOMAIN init |->
                 IF col \in DOMAIN init THEN init[col]
                 ELSE IF tableName = "referral_usage" /\ col = "details"
                      THEN Some(DetailsTemplate)
                      ELSE Some("") ]

\* formData after a render that handed the dialog a new header list: the
\* effect runs again while the dialog is open (columns is one of its
\* dependencies, EditAddModal.tsx:68); a closed dialog is unmounted
\* (src/App.tsx:549).
FormAfter(open, columns) ==
    IF open THEN FormEffect(modalMode, currentRow, columns, selectedTable)
    ELSE EmptyObject

\* Object.keys of an account: an absent email is an absent key.
AccountKeys(u) == IF u.email = Null THEN << "id" >> ELSE << "id", "email" >>

\* Every call in flight has now seen another call start.
Overlapped(fs) == { [f EXCEPT !.alone = FALSE] : f \in fs }

\* Variant of ViewOf: every relation that has a user_id column is
\* denormalized.
ViewOfDenormalizesAll(t, rows, users) ==
    IF t \in DenormTables \cup {"referral_usage"} THEN BuildView(t, rows, users)
    ELSE IF Len(rows) > 0
         THEN [ headers |-> ObjectKeys(t, rows[1]), data |-> rows ]
         ELSE [ headers |-> << >>, data |-> << >> ]

\* What a fetchData call writes once the rows have arrived
\* (src/App.tsx:137-208): the denormalized view, or the rows as returned.
ViewOf(t, rows, users) ==
    IF t \in DenormTables THEN BuildView(t, rows, users)
    ELSE IF Len(rows) > 0
         THEN [ headers |-> ObjectKeys(t, rows[1]), data |-> rows ]
         ELSE [ headers |-> << >>, data |-> << >> ]

\* Variant of FetchDataStart: the displayed rows are not cleared.
FetchDataStartKeepsRows(id, t, users) ==
    /\ error' = Null
    /\ IF isUsersTable(t)
       THEN /\ data' = users
            /\ headers' = IF Len(users) > 0 THEN AccountKeys(users[1]) ELSE << >>
            /\ loading' = FALSE
            /\ fetches' = Overlapped(fetches)
            /\ lastFetch' = Some([ id |-> id, table |-> t, users |-> users,
                                   ok |-> TRUE, rows |-> << >>,
                                   alone |-> fetches = {},
                                   overtaken |-> FALSE ])
       ELSE /\ data' = data
            /\ headers' = headers
            /\ loading' = TRUE
            /\ fetches' = Overlapped(fetches) \cup
                            { [ id |-> id, table |-> t, users |-> users,
                                alone |-> fetches = {} ] }
            /\ lastFetch' = lastFetch

\* Variant of FetchDataStart: for the users table the rows shown are those
\* of the snapshot of the previous render.
FetchDataStartUsersStale(id, t, users) ==
    /\ error' = Null
    /\ IF isUsersTable(t)
       THEN /\ data' = allUsers
            /\ headers' = IF Len(allUsers) > 0 THEN AccountKeys(allUsers[1])
                           ELSE << >>
            /\ loading' = FALSE
            /\ fetches' = Overlapped(fetches)
            /\ lastFetch' = Some([ id |-> id, table |-> t, users |-> users,
                                   ok |-> TRUE, rows |-> << >>,
                                   alone |-> fetches = {},
                                   overtaken |-> FALSE ])
       ELSE /\ data' = << >>
            /\ headers' = << >>
            /\ loading' = TRUE
            /\ fetches' = Overlapped(fetches) \cup
                            { [ id |-> id, table |-> t, users |-> users,
                                alone |-> fetches = {} ] }
            /\ lastFetch' = lastFetch

\* fetchData up to its first await, src/App.tsx:122-141 and 193-196: called
\* with the selectedTable and allUsers of the render that created it.
FetchDataStart(id, t, users) ==
    /\ error' = Null
    /\ IF isUsersTable(t)
       THEN /\ data' = users
            /\ headers' = IF Len(users) > 0 THEN AccountKeys(users[1]) ELSE << >>
            /\ loading' = FALSE
            /\ fetches' = Overlapped(fetches)
            /\ lastFetch' = Some([ id |-> id, table |-> t, users |-> users,
                                   ok |-> TRUE, rows |-> << >>,
                                   alone |-> fetches = {},
                                   overtaken |-> FALSE ])
       ELSE /\ data' = << >>
            /\ headers' = << >>
            /\ loading' = TRUE
            /\ fetches' = Overlapped(fetches) \cup
                            { [ id |-> id, table |-> t, users |-> users,
                                alone |-> fetches = {} ] }
            /\ lastFetch' = lastFetch

\* listUsers({page, perPage}) is sent, src/App.tsx:97-100.
perPage == 100

ListUsersRequest(page) == [ page |-> page, perPage |-> perPage ]

\* fetchAllUsers up to its first await, src/App.tsx:90-100.
FetchAllUsersStart(id) ==
    [ id |-> id, page |-> 1, allFetchedUsers |-> << >>,
      requested |-> << ListUsersRequest(1) >>, responses |-> << >> ]

\* The mount effects, src/App.tsx:218-224: fetchData(), then fetchAllUsers().
Mount ==
    /\ ~mounted
    /\ mounted' = TRUE
    /\ FetchDataStart(nextId, selectedTable, allUsers)
    /\ refreshes' = refreshes \cup { FetchAllUsersStart(nextId + 1) }
    /\ nextId' = nextId + 2
    /\ UNCHANGED << selectedTable, allUsers, toast, selects, lastRefresh >>
    /\ UNCHANGED << viewVars, dialogVars, mutVars, awaited >>

\* The operator picks a table in the sidebar, src/App.tsx:451; the change of
\* selectedTable re-creates fetchData and its effect calls it (216-220).
SelectTable(t) ==
    /\ mounted
    /\ NoDialog
    /\ selects < MaxSelects
    /\ selects' = selects + 1
    /\ t # selectedTable
    /\ selectedTable' = t
    /\ FetchDataStart(nextId, t, allUsers)
    /\ nextId' = nextId + 1
    /\ UNCHANGED << allUsers, toast, refreshes, mounted, lastRefresh >>
    /\ UNCHANGED << viewVars, dialogVars, mutVars, awaited >>

\* Rows a relation's query can return: select('*') in any order for the
\* denormalized relations, ordered by id descending otherwise (193-196).
IdDescending(s) ==
    \A i, j \in 1 .. Len(s) : i < j => s[i]["id"][1] > s[j]["id"][1]

\* Rows of the relations behind the running App: row i belongs to u1 when i
\* is odd and to u2 when it is even.
AppRowsOf(t) ==
    { MkRow(t, id, IF id % 2 = 1 THEN "u1" ELSE "u2") : id \in 1 .. MaxAppRows }

AppRowSeqs(t) ==
    { s \in SeqsUpTo(AppRowsOf(t), MaxAppRows) : DistinctIds(s) }

RowResponses(t) ==
    IF t \in DenormTables THEN AppRowSeqs(t)
    ELSE { s \in AppRowSeqs(t) : IdDescending(s) }

FetchErrorMessage == Some("Error fetching data")

\* Variant of FetchDataRows: a response is dropped when a call started later
\* has already written its rows.
FetchDataRowsIfLatest(f, rows) ==
    LET view == ViewOf(f.table, rows, f.users)
        stale == lastFetch # Null /\ lastFetch[1].id > f.id
    IN  /\ headers' = IF stale THEN headers ELSE view.headers
        /\ data' = IF stale THEN data ELSE view.data
        /\ loading' = FALSE
        /\ fetches' = fetches \ {f}
        /\ lastFetch' = Some([ id |-> f.id, table |-> f.table, users |-> f.users,
                               ok |-> TRUE, rows |-> rows, alone |-> f.alone,
                               overtaken |-> /\ lastFetch # Null
                                             /\ lastFetch[1].ok
                                             /\ lastFetch[1].id > f.id ])
        /\ formData' = FormAfter(isEditAddModalOpen, headers')
        /\ UNCHANGED << selectedTable, error, allUsers, toast, refreshes,
                        mounted, nextId, selects, lastRefresh >>
        /\ UNCHANGED << viewVars, dialogFrame, mutVars, awaited >>

\* Variant of FetchDataRows: the view is built with the snapshot of the
\* moment the response arrives.
FetchDataRowsCurrentSnapshot(f, rows) ==
    LET view == ViewOf(f.table, rows, allUsers)
    IN  /\ headers' = view.headers
        /\ data' = view.data
        /\ loading' = FALSE
        /\ fetches' = fetches \ {f}
        /\ lastFetch' = Some([ id |-> f.id, table |-> f.table, users |-> f.users,
                               ok |-> TRUE, rows |-> rows, alone |-> f.alone,
                               overtaken |-> /\ lastFetch # Null
                                             /\ lastFetch[1].ok
                                             /\ lastFetch[1].id > f.id ])
        /\ formData' = FormAfter(isEditAddModalOpen, headers')
        /\ UNCHANGED << selectedTable, error, allUsers, toast, refreshes,
                        mounted, nextId, selects, lastRefresh >>
        /\ UNCHANGED << viewVars, dialogFrame, mutVars, awaited >>

\* A fetchData call resumes with the rows, src/App.tsx:143-208 and 213-215.
FetchDataRows(f, rows) ==
    LET view == ViewOf(f.table, rows, f.users)
    IN  /\ headers' = view.headers
        /\ data' = view.data
        /\ loading' = FALSE
        /\ fetches' = fetches \ {f}
        /\ lastFetch' = Some([ id |-> f.id, table |-> f.table, users |-> f.users,
                               ok |-> TRUE, rows |-> rows, alone |-> f.alone,
                               overtaken |-> /\ lastFetch # Null
                                             /\ lastFetch[1].ok
                                             /\ lastFetch[1].id > f.id ])
        /\ formData' = FormAfter(isEditAddModalOpen, headers')
        /\ UNCHANGED << selectedTable, error, allUsers, toast, refreshes,
                        mounted, nextId, selects, lastRefresh >>
        /\ UNCHANGED << viewVars, dialogFrame, mutVars, awaited >>

\* Variant of FetchDataError: a failed request is sent once more.
FetchDataErrorRetries(f) ==
    /\ error' = FetchErrorMessage
    /\ loading' = (f.id = 1)
    /\ fetches' = (fetches \ {f}) \cup
                    (IF f.id = 1 THEN { [f EXCEPT !.id = nextId] } ELSE {})
    /\ nextId' = IF f.id = 1 THEN nextId + 1 ELSE nextId
    /\ lastFetch' = Some([ id |-> f.id, table |-> f.table, users |-> f.users,
                           ok |-> FALSE, rows |-> << >>, alone |-> f.alone,
                           overtaken |-> FALSE ])
    /\ UNCHANGED << selectedTable, data, headers, allUsers, toast, refreshes,
                    mounted, selects, lastRefresh >>
    /\ UNCHANGED << viewVars, dialogVars, mutVars, awaited >>

\* A fetchData call resumes with an error (returned, or thrown by the
\* client): src/App.tsx:143, 198 and 209-215.
FetchDataError(f) ==
    /\ error' = FetchErrorMessage
    /\ loading' = FALSE
    /\ fetches' = fetches \ {f}
    /\ lastFetch' = Some([ id |-> f.id, table |-> f.table, users |-> f.users,
                           ok |-> FALSE, rows |-> << >>, alone |-> f.alone,
                           overtaken |-> FALSE ])
    /\ UNCHANGED << selectedTable, data, headers, allUsers, toast, refreshes,
                    mounted, nextId, selects, lastRefresh >>
    /\ UNCHANGED << viewVars, dialogVars, mutVars, awaited >>

FetchDataRespond ==
    \E f \in fetches :
        \/ \E rows \in RowResponses(f.table) : FetchDataRows(f, rows)
        \/ FetchDataError(f)

----------------------------------------------------------------------------
(* fetchAllUsers, src/App.tsx:90-120 *)

\* Pages the identity store can return to a call that already holds `got`:
\* accounts are listed once each (id is the primary key).
\* The identity store of the running App: u1 is "b", u2 has no email.
Directory == { [id |-> "u1", email |-> Some(<<2>>)], [id |-> "u2", email |-> Null] }

PageResponses(got) ==
    { pg \in SeqsUpTo(Directory, MaxPageLen) :
        /\ DistinctIds(pg)
        /\ \A i \in 1 .. Len(pg), j \in 1 .. Len(got) : pg[i].id # got[j].id }

\* Variant of PageContinues: the loop goes on after a full page only.
PageContinuesIfFull(usersData) == Len(usersData) >= perPage

\* The loop goes on after this page, src/App.tsx:108.
PageContinues(usersData) == Len(usersData) > 0

\* Variant of SnapshotOf: each page overwrites the pages before it.
SnapshotOfLastPage(r) ==
    IF r.responses = << >> THEN << >> ELSE r.responses[Len(r.responses)][1]

\* What the call hands to setAllUsers when the loop ends, src/App.tsx:109
\* and 116: every page pushed so far.
SnapshotOf(r) == r.allFetchedUsers

\* A page arrives and the loop requests the next one, src/App.tsx:108-110.
ListUsersPage(r, pg) ==
    /\ PageContinues(pg)
    /\ refreshes' = (refreshes \ {r}) \cup
         { [ r EXCEPT !.allFetchedUsers = r.allFetchedUsers \o pg,
                      !.page = r.page + 1,
                      !.requested = Append(r.requested, ListUsersRequest(r.page + 1)),
                      !.responses = Append(r.responses, Some(pg)) ] }
    /\ UNCHANGED << selectedTable, data, loading, error, headers, allUsers,
                    toast, fetches, mounted, nextId, selects, lastFetch,
                    lastRefresh >>
    /\ UNCHANGED << viewVars, dialogVars, mutVars, awaited >>

\* The loop ends, on an empty page (111-114) or on a page error (102-106):
\* setAllUsers (116), whose new snapshot re-creates fetchData and makes its
\* effect call it (216-220).
ListUsersDone(r, snapshot, response, end) ==
    /\ refreshes' = refreshes \ {r}
    /\ allUsers' = snapshot
    /\ lastRefresh' = Some([ id |-> r.id, end |-> end,
                             requested |-> r.requested,
                             responses |-> Append(r.responses, response) ])
    /\ FetchDataStart(nextId, selectedTable, allUsers')
    /\ nextId' = nextId + 1
    /\ awaited' = awaited \ {r.id}
    /\ formData' = FormAfter(isEditAddModalOpen, headers')
    /\ UNCHANGED << selectedTable, toast, mounted, selects >>
    /\ UNCHANGED << viewVars, dialogFrame, mutVars >>

ListUsersEmpty(r, pg) ==
    /\ ~PageContinues(pg)
    /\ ListUsersDone(r, SnapshotOf(r), Some(pg), "empty")

\* Variant of ListUsersError: a page error discards the pages collected.
ListUsersErrorDiscards(r) == ListUsersDone(r, << >>, Null, "error")

\* break on usersError, then setAllUsers: src/App.tsx:102-106 and 116.
ListUsersError(r) == ListUsersDone(r, SnapshotOf(r), Null, "error")

\* The client throws: the catch only logs, src/App.tsx:117-119. A handler
\* that awaited the call then runs its finally block (390-392, 407-409).
ListUsersThrow(r) ==
    /\ refreshes' = refreshes \ {r}
    /\ lastRefresh' = Some([ id |-> r.id, end |-> "throw",
                             requested |-> r.requested,
                             responses |-> Append(r.responses, Null) ])
    /\ loading' = IF r.id \in awaited THEN FALSE ELSE loading
    /\ awaited' = awaited \ {r.id}
    /\ UNCHANGED << selectedTable, data, error, headers, allUsers,
                    toast, fetches, mounted, nextId, selects, lastFetch >>
    /\ UNCHANGED << viewVars, dialogVars, mutVars >>

ListUsersRespond ==
    \E r \in refreshes :
        \/ \E pg \in PageResponses(r.allFetchedUsers) :
              ListUsersPage(r, pg) \/ ListUsersEmpty(r, pg)
        \/ ListUsersError(r)
        \/ ListUsersThrow(r)

----------------------------------------------------------------------------
(* Dialogs and mutation handlers, src/App.tsx:226-410 and src/components *)

MaxSubmits == 1     \* forms submitted and deletions confirmed by the operator

coreVars == << selectedTable, data, loading, error, headers, allUsers, toast,
               fetches, refreshes, mounted, nextId, selects, lastFetch,
               lastRefresh >>

\* Texts the operator can leave in a JSON text area.
JsonTexts == { "", "{}", "[]", "null", "1", "{bad" }

\* JavaScript values a JSON text stands for, and a string.
JsValue(kind) == [ kind |-> kind, text |-> "" ]
JsString(text) == [ kind |-> "string", text |-> text ]

\* JSON.parse(text): Null when it throws a SyntaxError.
JSONParse(text) ==
    CASE text = "{}" -> Some(JsValue("object"))
      [] text = "[]" -> Some(JsValue("array"))
      [] text = "null" -> Some(JsValue("null"))
      [] text = "1" -> Some(JsValue("number"))
      [] OTHER -> Null

\* typeof v, Array.isArray(v) and v === null
TypeOf(v) == IF v.kind \in {"object", "array", "null"} THEN "object" ELSE v.kind
IsArray(v) == v.kind = "array"
IsNull(v) == v.kind = "null"

\* showToast (src/App.tsx:84-86); formatSupabaseError's text is "gateway".
SuccessToast(message) == Some([ type |-> "success", message |-> message ])
ErrorToast == Some([ type |-> "error", message |-> "Error: gateway" ])

\* The table is rendered, src/App.tsx:499.
GridShown == error = Null /\ Len(data) > 0

\* The displayed row is a row of a relation (not an account).
IsRow(row) == "user_id" \in DOMAIN row

\* src/App.tsx:509
isPlaceholderRow(row) == ~Truthy(row["id"])

\* The edit and delete buttons of a row are rendered, src/App.tsx:516-534.
RowActions(row) ==
    /\ GridShown
    /\ ~isUsersTable(selectedTable)
    /\ IsRow(row)
    /\ ~(selectedTable \in DenormTables /\ isPlaceholderRow(row))

\* A handler suspended at its gateway request: the request, and the
\* fetchData of the render that created the handler (its selectedTable and
\* allUsers).
Mutation(id, kind, table) ==
    [ id |-> id, kind |-> kind, table |-> table, rowId |-> Null,
      userId |-> Null, details |-> Null, email |-> "", password |-> "",
      metadata |-> Null, text |-> Null, fields |-> {}, confirmed |-> FALSE,
      fdTable |-> selectedTable, fdUsers |-> allUsers ]

\* What lastMutation records of a handler that resumed.
Resumed(m, ok) ==
    Some([ id |-> m.id, kind |-> m.kind, table |-> m.table, ok |-> ok,
           rowId |-> m.rowId, userId |-> m.userId, text |-> m.text ])

\* src/App.tsx:227-231
handleAddNew ==
    /\ mounted
    /\ NoDialog
    /\ submits < MaxSubmits
    /\ ~isUsersTable(selectedTable)
    /\ modalMode' = "add"
    /\ currentRow' = Null
    /\ isEditAddModalOpen' = TRUE
    /\ formData' = FormEffect(modalMode', currentRow', headers, selectedTable)
    /\ UNCHANGED << isUserModalOpen, isAddUserModalOpen, addUserError,
                    userModalError >>
    /\ UNCHANGED << coreVars, mutVars, awaited, viewVars >>

\* src/App.tsx:233-237, offered on a placeholder row (523-527).
handleAddNewRecordForUser(row) ==
    /\ mounted
    /\ NoDialog
    /\ submits < MaxSubmits
    /\ GridShown
    /\ selectedTable \in DenormTables
    /\ IsRow(row)
    /\ isPlaceholderRow(row)
    /\ modalMode' = "add"
    /\ currentRow' = Some([ user_id |-> row["user_id"] ])
    /\ isEditAddModalOpen' = TRUE
    /\ formData' = FormEffect(modalMode', currentRow', headers, selectedTable)
    /\ UNCHANGED << isUserModalOpen, isAddUserModalOpen, addUserError,
                    userModalError >>
    /\ UNCHANGED << coreVars, mutVars, awaited, viewVars >>

\* src/App.tsx:239-243
handleEdit(row) ==
    /\ mounted
    /\ NoDialog
    /\ submits < MaxSubmits
    /\ RowActions(row)
    /\ modalMode' = "edit"
    /\ currentRow' = Some(row)
    /\ isEditAddModalOpen' = TRUE
    /\ formData' = FormEffect(modalMode', currentRow', headers, selectedTable)
    /\ UNCHANGED << isUserModalOpen, isAddUserModalOpen, addUserError,
                    userModalError >>
    /\ UNCHANGED << coreVars, mutVars, awaited, viewVars >>

\* src/App.tsx:343-345
handleAddNewUser ==
    /\ mounted
    /\ NoDialog
    /\ submits < MaxSubmits
    /\ isUsersTable(selectedTable)
    /\ isAddUserModalOpen' = TRUE
    /\ addUserError' = Null
    /\ UNCHANGED << isEditAddModalOpen, isUserModalOpen, modalMode,
                    currentRow, userModalError, formData >>
    /\ UNCHANGED << coreVars, mutVars, awaited, viewVars >>

\* src/App.tsx:371-374, offered on each row of the users table (516-520).
handleManageUser(row) ==
    /\ mounted
    /\ NoDialog
    /\ submits < MaxSubmits
    /\ GridShown
    /\ isUsersTable(selectedTable)
    /\ ~IsRow(row)
    /\ currentRow' = Some(row)
    /\ isUserModalOpen' = TRUE
    /\ userModalError' = Null
    /\ UNCHANGED << isEditAddModalOpen, isAddUserModalOpen, modalMode,
                    addUserError, formData >>
    /\ UNCHANGED << coreVars, mutVars, awaited, viewVars >>

\* onClose of the three dialogs, src/App.tsx:552, 565 and 575: a closed
\* dialog is unmounted and loses its state.
CloseEditAddModal ==
    /\ isEditAddModalOpen
    /\ isEditAddModalOpen' = FALSE
    /\ formData' = EmptyObject
    /\ UNCHANGED << isUserModalOpen, isAddUserModalOpen, modalMode,
                    currentRow, addUserError, userModalError >>
    /\ UNCHANGED << coreVars, mutVars, awaited, viewVars >>

CloseUserModal ==
    /\ isUserModalOpen
    /\ isUserModalOpen' = FALSE
    /\ userModalError' = Null
    /\ UNCHANGED << isEditAddModalOpen, isAddUserModalOpen, modalMode,
                    currentRow, addUserError, formData >>
    /\ UNCHANGED << coreVars, mutVars, awaited, viewVars >>

CloseAddUserModal ==
    /\ isAddUserModalOpen
    /\ isAddUserModalOpen' = FALSE
    /\ addUserError' = Null
    /\ UNCHANGED << isEditAddModalOpen, isUserModalOpen, modalMode,
                    currentRow, userModalError, formData >>
    /\ UNCHANGED << coreVars, mutVars, awaited, viewVars >>

\* handleDelete up to its await, src/App.tsx:245-254; confirmed is the
\* answer of window.confirm, and nothing happens when it is false.
handleDelete(row, confirmed) ==
    /\ mounted
    /\ NoDialog
    /\ RowActions(row)
    /\ submits < MaxSubmits
    /\ IF confirmed
       THEN /\ submits' = submits + 1
            /\ loading' = TRUE
            /\ mutations' = mutations \cup
                 { [ Mutation(nextId, "delete", selectedTable)
                       EXCEPT !.rowId = row["id"], !.confirmed = confirmed ] }
            /\ nextId' = nextId + 1
       ELSE UNCHANGED << submits, loading, mutations, nextId >>
    /\ UNCHANGED << selectedTable, data, error, headers, allUsers, toast,
                    fetches, refreshes, mounted, selects, lastFetch,
                    lastRefresh, lastMutation >>
    /\ UNCHANGED << dialogVars, awaited, viewVars >>

\* { ...obj, [key]: value }
Assign(obj, key, value) ==
    [ c \in DOMAIN obj \cup {key} |-> IF c = key THEN value ELSE obj[c] ]

\* What the operator types into the form.
TypedColumns == {"plan"}
TypedValues == {"silver"}

\* handleChange of a text input or select of the form,
\* src/components/EditAddModal.tsx:70-80 (the inputs are those of
\* formColumns, 115).
handleChange(name, value) ==
    /\ isEditAddModalOpen
    /\ name \in SeqToSet(formColumns(headers))
    /\ formData' = Assign(formData, name, Some(value))
    /\ UNCHANGED dialogFrame
    /\ UNCHANGED << coreVars, mutVars, awaited, viewVars >>

\* The details field of the form, when the form has one: formColumns are
\* the headers (src/components/EditAddModal.tsx:39, src/App.tsx:556).
FormDetails ==
    IF selectedTable = "referral_usage" /\ "details" \in SeqToSet(headers)
    THEN { Some(text) : text \in JsonTexts }
    ELSE { Null }

\* dataToSave.details of referral_usage, src/App.tsx:294-298: a non-empty
\* string is parsed, and kept as it is when it does not parse.
SaveDetails(details) ==
    IF details # Null /\ details[1] # ""
    THEN IF JSONParse(details[1]) # Null THEN JSONParse(details[1])
         ELSE Some(JsString(details[1]))
    ELSE IF details = Null THEN Null ELSE Some(JsString(""))

\* The keys of dataToSave: those of the payload, which is formData without
\* users (EditAddModal.tsx:86, src/App.tsx:280); an empty
\* progress_percentage is deleted (309-313).
DataToSaveKeys(tableName, payload) ==
    (DOMAIN payload \ {"users"}) \
        (IF /\ tableName = "user_progress"
            /\ "progress_percentage" \in DOMAIN payload
            /\ payload["progress_percentage"] = Some("")
         THEN {"progress_percentage"} ELSE {})

\* Save of the row form: handleSubmit (src/components/EditAddModal.tsx:82-89)
\* calls handleSave, here up to its await (src/App.tsx:269-326). details is
\* the text the operator leaves in the details text area, when there is one.
handleSave(details) ==
    /\ isEditAddModalOpen
    /\ \A m \in mutations : m.kind \notin {"insert", "update"}
    /\ submits < MaxSubmits
    /\ submits' = submits + 1
    /\ formData' = IF details = Null THEN formData
                   ELSE Assign(formData, "details", details)
    /\ IF isUsersTable(selectedTable)
       THEN /\ toast' = ErrorToast
            /\ loading' = FALSE
            /\ UNCHANGED << mutations, nextId >>
       ELSE /\ loading' = TRUE
            /\ mutations' = mutations \cup
                 { [ Mutation(nextId,
                              IF modalMode = "add" THEN "insert" ELSE "update",
                              selectedTable)
                       EXCEPT !.rowId = IF modalMode = "add" THEN Null
                                        ELSE currentRow[1]["id"],
                              !.details = SaveDetails(details),
                              !.text = details,
                              !.fields = DataToSaveKeys(selectedTable, formData') ] }
            /\ nextId' = nextId + 1
            /\ UNCHANGED toast
    /\ UNCHANGED << selectedTable, data, error, headers, allUsers, fetches,
                    refreshes, mounted, selects, lastFetch, lastRefresh,
                    lastMutation >>
    /\ UNCHANGED << dialogFrame, awaited, viewVars >>

\* handleCreateUser up to its await, src/App.tsx:347-355.
handleCreateUser(email, password, metadata, text) ==
    /\ mutations' = mutations \cup
         { [ Mutation(nextId, "createUser", "users")
               EXCEPT !.email = email, !.password = password,
                      !.metadata = Some(metadata), !.text = Some(text) ] }
    /\ nextId' = nextId + 1

\* Submit of the create-user dialog, src/components/AddUserModal.tsx:18-47.
AddUserHandleSubmit(email, password, text) ==
    /\ isAddUserModalOpen
    /\ \A m \in mutations : m.kind # "createUser"
    /\ submits < MaxSubmits
    /\ submits' = submits + 1
    /\ LET parsedMetadata == JSONParse(IF text = "" THEN "{}" ELSE text)
       IN  IF email = "" \/ password = ""
           THEN /\ addUserError' = Some("Email and password are required.")
                /\ UNCHANGED << mutations, nextId >>
           ELSE IF parsedMetadata = Null
           THEN /\ addUserError' = Some("SyntaxError")
                /\ UNCHANGED << mutations, nextId >>
           ELSE IF \/ TypeOf(parsedMetadata[1]) # "object"
                   \/ IsNull(parsedMetadata[1])
                   \/ IsArray(parsedMetadata[1])
           THEN /\ addUserError' = Some("Metadata must be a valid JSON object")
                /\ UNCHANGED << mutations, nextId >>
           ELSE /\ addUserError' = Null
                /\ handleCreateUser(email, password, parsedMetadata[1], text)
    /\ UNCHANGED << selectedTable, data, loading, error, headers, allUsers,
                    toast, fetches, refreshes, mounted, selects, lastFetch,
                    lastRefresh, lastMutation >>
    /\ UNCHANGED << isEditAddModalOpen, isUserModalOpen, isAddUserModalOpen,
                    modalMode, currentRow, userModalError, formData >>
    /\ UNCHANGED << awaited, viewVars >>

\* handleUpdateUser up to its await, src/App.tsx:376-382.
handleUpdateUser(userId, metadata, text) ==
    /\ loading' = TRUE
    /\ mutations' = mutations \cup
         { [ Mutation(nextId, "updateUserById", "users")
               EXCEPT !.userId = Some(userId), !.metadata = Some(metadata),
                      !.text = Some(text) ] }
    /\ nextId' = nextId + 1

\* Save of the manage-user dialog,
\* src/components/UserManagementModal.tsx:32-49.
UserModalHandleUpdate(text) ==
    /\ isUserModalOpen
    /\ currentRow # Null
    /\ \A m \in mutations : m.kind # "updateUserById"
    /\ submits < MaxSubmits
    /\ submits' = submits + 1
    /\ LET parsedMetadata == JSONParse(text)
       IN  IF \/ parsedMetadata = Null
              \/ TypeOf(parsedMetadata[1]) # "object"
              \/ IsNull(parsedMetadata[1])
           THEN /\ userModalError' = Some("Invalid JSON format. Please check your input.")
                /\ UNCHANGED << loading, mutations, nextId >>
           ELSE /\ userModalError' = Null
                /\ handleUpdateUser(currentRow[1].id, parsedMetadata[1], text)
    /\ UNCHANGED << selectedTable, data, error, headers, allUsers, toast,
                    fetches, refreshes, mounted, selects, lastFetch,
                    lastRefresh, lastMutation >>
    /\ UNCHANGED << isEditAddModalOpen, isUserModalOpen, isAddUserModalOpen,
                    modalMode, currentRow, addUserError, formData >>
    /\ UNCHANGED << awaited, viewVars >>

\* handleDeleteUser up to its await, src/App.tsx:395-399.
handleDeleteUser(userId) ==
    /\ loading' = TRUE
    /\ mutations' = mutations \cup
         { [ Mutation(nextId, "deleteUser", "users")
               EXCEPT !.userId = Some(userId) ] }
    /\ nextId' = nextId + 1

\* Delete of the manage-user dialog, confirmed,
\* src/components/UserManagementModal.tsx:51-55.
UserModalHandleDelete ==
    /\ isUserModalOpen
    /\ currentRow # Null
    /\ submits < MaxSubmits
    /\ submits' = submits + 1
    /\ handleDeleteUser(currentRow[1].id)
    /\ UNCHANGED << selectedTable, data, error, headers, allUsers, toast,
                    fetches, refreshes, mounted, selects, lastFetch,
                    lastRefresh, lastMutation >>
    /\ UNCHANGED << dialogVars, awaited, viewVars >>

\* A row handler resumes after a successful request: toast, then
\* await fetchData() (src/App.tsx:258-259 and 331-333).
RowMutationOk(m, message) ==
    /\ mutations' = mutations \ {m}
    /\ lastMutation' = Resumed(m, TRUE)
    /\ toast' = SuccessToast(message)
    /\ FetchDataStart(nextId, m.fdTable, m.fdUsers)
    /\ nextId' = nextId + 1
    /\ UNCHANGED << selectedTable, allUsers, refreshes, mounted, selects,
                    lastRefresh, submits, awaited, viewVars >>

\* Variant of MutationError: the loading flag is cleared on success only.
MutationErrorKeepsLoading(m) ==
    /\ mutations' = mutations \ {m}
    /\ lastMutation' = Resumed(m, FALSE)
    /\ toast' = ErrorToast
    /\ UNCHANGED << selectedTable, data, loading, error, headers, allUsers,
                    fetches, refreshes, mounted, nextId, selects, lastFetch,
                    lastRefresh, submits >>
    /\ UNCHANGED << dialogVars, awaited, viewVars >>

\* A handler resumes with an error: catch and finally (src/App.tsx:260-265,
\* 334-339, 387-392 and 404-409).
MutationError(m) ==
    /\ mutations' = mutations \ {m}
    /\ lastMutation' = Resumed(m, FALSE)
    /\ toast' = ErrorToast
    /\ loading' = FALSE
    /\ UNCHANGED << selectedTable, data, error, headers, allUsers, fetches,
                    refreshes, mounted, nextId, selects, lastFetch,
                    lastRefresh, submits >>
    /\ UNCHANGED << dialogVars, awaited, viewVars >>

\* An account handler resumes after a successful request: toast, then
\* await fetchAllUsers() (src/App.tsx:359-361, 384-386 and 401-403).
AccountMutationOk(m, message) ==
    /\ mutations' = mutations \ {m}
    /\ lastMutation' = Resumed(m, TRUE)
    /\ toast' = SuccessToast(message)
    /\ refreshes' = refreshes \cup { FetchAllUsersStart(nextId) }
    /\ nextId' = nextId + 1
    /\ UNCHANGED << selectedTable, data, loading, error, headers, allUsers,
                    fetches, mounted, selects, lastFetch, lastRefresh,
                    submits, viewVars >>

\* Variant of handleDeleteOk: the rows are not fetched again.
handleDeleteOkNoRefetch(m) ==
    /\ m.kind = "delete"
    /\ mutations' = mutations \ {m}
    /\ lastMutation' = Resumed(m, TRUE)
    /\ toast' = SuccessToast("Row deleted successfully!")
    /\ loading' = FALSE
    /\ UNCHANGED << selectedTable, data, error, headers, allUsers, fetches,
                    refreshes, mounted, nextId, selects, lastFetch,
                    lastRefresh, submits >>
    /\ UNCHANGED << dialogVars, awaited, viewVars >>

\* src/App.tsx:256-259
handleDeleteOk(m) ==
    /\ m.kind = "delete"
    /\ RowMutationOk(m, "Row deleted successfully!")
    /\ formData' = FormAfter(isEditAddModalOpen, headers')
    /\ UNCHANGED dialogFrame

\* src/App.tsx:256 and 260-265
handleDeleteError(m) == m.kind = "delete" /\ MutationError(m)

\* src/App.tsx:329-333
handleSaveOk(m) ==
    /\ m.kind \in {"insert", "update"}
    /\ RowMutationOk(m, IF m.kind = "insert" THEN "Row added successfully!"
                        ELSE "Row updated successfully!")
    /\ isEditAddModalOpen' = FALSE
    /\ formData' = EmptyObject
    /\ UNCHANGED << isUserModalOpen, isAddUserModalOpen, modalMode,
                    currentRow, addUserError, userModalError >>

\* Variant of handleSaveError: the dialog is closed whatever the outcome.
handleSaveErrorCloses(m) ==
    /\ m.kind \in {"insert", "update"}
    /\ mutations' = mutations \ {m}
    /\ lastMutation' = Resumed(m, FALSE)
    /\ toast' = ErrorToast
    /\ loading' = FALSE
    /\ isEditAddModalOpen' = FALSE
    /\ formData' = EmptyObject
    /\ UNCHANGED << selectedTable, data, error, headers, allUsers, fetches,
                    refreshes, mounted, nextId, selects, lastFetch,
                    lastRefresh, submits >>
    /\ UNCHANGED << isUserModalOpen, isAddUserModalOpen, modalMode,
                    currentRow, addUserError, userModalError >>
    /\ UNCHANGED << awaited, viewVars >>

\* src/App.tsx:329 and 334-339
handleSaveError(m) == m.kind \in {"insert", "update"} /\ MutationError(m)

\* src/App.tsx:357-362
handleCreateUserOk(m) ==
    /\ m.kind = "createUser"
    /\ AccountMutationOk(m, "User created successfully!")
    /\ isAddUserModalOpen' = FALSE
    /\ addUserError' = Null
    /\ UNCHANGED << isEditAddModalOpen, isUserModalOpen, modalMode,
                    currentRow, userModalError, formData, awaited >>

\* The error message is returned (src/App.tsx:363-368) and the dialog, when
\* still mounted, shows it (src/components/AddUserModal.tsx:39-45).
handleCreateUserError(m) ==
    /\ m.kind = "createUser"
    /\ mutations' = mutations \ {m}
    /\ lastMutation' = Resumed(m, FALSE)
    /\ addUserError' = IF isAddUserModalOpen THEN Some("gateway") ELSE Null
    /\ UNCHANGED << coreVars, submits, awaited, viewVars >>
    /\ UNCHANGED << isEditAddModalOpen, isUserModalOpen, isAddUserModalOpen,
                    modalMode, currentRow, userModalError, formData >>

\* src/App.tsx:383-386; the finally block runs when fetchAllUsers returns.
handleUpdateUserOk(m) ==
    /\ m.kind = "updateUserById"
    /\ AccountMutationOk(m, "User metadata updated successfully!")
    /\ isUserModalOpen' = FALSE
    /\ userModalError' = Null
    /\ awaited' = awaited \cup {nextId}
    /\ UNCHANGED << isEditAddModalOpen, isAddUserModalOpen, modalMode,
                    currentRow, addUserError, formData >>

\* src/App.tsx:383 and 387-392
handleUpdateUserError(m) == m.kind = "updateUserById" /\ MutationError(m)

\* Variant of handleDeleteUserOk: the handler also drops the account from
\* the snapshot itself.
handleDeleteUserOkOptimistic(m) ==
    /\ m.kind = "deleteUser"
    /\ mutations' = mutations \ {m}
    /\ lastMutation' = Resumed(m, TRUE)
    /\ toast' = SuccessToast("User deleted successfully!")
    /\ allUsers' = SelectSeq(allUsers, LAMBDA u : Some(u.id) # m.userId)
    /\ refreshes' = refreshes \cup { FetchAllUsersStart(nextId) }
    /\ nextId' = nextId + 1
    /\ isUserModalOpen' = FALSE
    /\ userModalError' = Null
    /\ awaited' = awaited \cup {nextId}
    /\ UNCHANGED << selectedTable, data, loading, error, headers, fetches,
                    mounted, selects, lastFetch, lastRefresh, submits,
                    viewVars >>
    /\ UNCHANGED << isEditAddModalOpen, isAddUserModalOpen, modalMode,
                    currentRow, addUserError, formData >>

\* src/App.tsx:400-403; the finally block runs when fetchAllUsers returns.
handleDeleteUserOk(m) ==
    /\ m.kind = "deleteUser"
    /\ AccountMutationOk(m, "User deleted successfully!")
    /\ isUserModalOpen' = FALSE
    /\ userModalError' = Null
    /\ awaited' = awaited \cup {nextId}
    /\ UNCHANGED << isEditAddModalOpen, isAddUserModalOpen, modalMode,
                    currentRow, addUserError, formData >>

\* src/App.tsx:400 and 404-409
handleDeleteUserError(m) == m.kind = "deleteUser" /\ MutationError(m)

MutationRespond ==
    \E m \in mutations :
        \/ handleDeleteOk(m)
        \/ handleDeleteError(m)
        \/ handleSaveOk(m)
        \/ handleSaveError(m)
        \/ handleCreateUserOk(m)
        \/ handleCreateUserError(m)
        \/ handleUpdateUserOk(m)
        \/ handleUpdateUserError(m)
        \/ handleDeleteUserOk(m)
        \/ handleDeleteUserError(m)

\* What the operator does with the dialogs and the rows.
Operator ==
    \/ handleAddNew
    \/ handleAddNewUser
    \/ \E i \in 1 .. Len(data) :
          \/ handleAddNewRecordForUser(data[i])
          \/ handleEdit(data[i])
          \/ handleManageUser(data[i])
          \/ \E confirmed \in BOOLEAN : handleDelete(data[i], confirmed)
    \/ CloseEditAddModal
    \/ CloseUserModal
    \/ CloseAddUserModal
    \/ \E details \in FormDetails : handleSave(details)
    \/ \E email \in {"", "a@x"}, password \in {"", "pw"}, text \in JsonTexts :
          AddUserHandleSubmit(email, password, text)
    \/ \E text \in JsonTexts : UserModalHandleUpdate(text)
    \/ UserModalHandleDelete

----------------------------------------------------------------------------
(* Specifications *)

IdleView == vTable = "subscriptions" /\ vRows = << >> /\ vUsers = << >> /\ vView = Null

Init == InitApp /\ IdleView

Next ==
    \/ Mount
    \/ \E t \in SeqToSet(managedTables) : SelectTable(t)
    \/ FetchDataRespond
    \/ ListUsersRespond

Spec == Init /\ [][Next]_vars

\* The App with its dialogs and mutation handlers.
NextCrud ==
    \/ Mount
    \/ \E t \in SeqToSet(managedTables) : SelectTable(t)
    \/ FetchDataRespond
    \/ ListUsersRespond
    \/ Operator
    \/ MutationRespond

SpecCrud == Init /\ [][NextCrud]_vars

\* The App with the row form: the operator selects relations, opens the
\* form, types, saves or closes it while the fetches and the refresh resolve.
FormOperator ==
    \/ handleAddNew
    \/ \E i \in 1 .. Len(data) :
          \/ handleAddNewRecordForUser(data[i])
          \/ handleEdit(data[i])
    \/ \E name \in TypedColumns, value \in TypedValues : handleChange(name, value)
    \/ CloseEditAddModal
    \/ \E details \in FormDetails : handleSave(details)

SaveRespond == \E m \in mutations : handleSaveOk(m) \/ handleSaveError(m)

NextForm ==
    \/ Mount
    \/ \E t \in SeqToSet(managedTables) : SelectTable(t)
    \/ FetchDataRespond
    \/ ListUsersRespond
    \/ FormOperator
    \/ SaveRespond

SpecForm == Init /\ [][NextForm]_vars

\* fetchData's branch for the other relations (src/App.tsx:192-208) on
\* drawn inputs: the rows are a response to a query ordered by id descending.
InitRows ==
    /\ vTable = "referral_usage"
    /\ vRows \in { s \in RowSeqs(vTable) : IdDescending(s) }
    /\ vUsers \in Snapshots
    /\ vView = Null

ApplyViewOf ==
    /\ vView = Null
    /\ vView' = Some(ViewOf(vTable, vRows, vUsers))
    /\ UNCHANGED << vTable, vRows, vUsers >>

InitSpecRows == InitApp /\ InitRows

NextRows == ApplyViewOf /\ UNCHANGED appVars

SpecRows == InitSpecRows /\ [][NextRows]_vars

InitSpecView == InitApp /\ InitView

NextView == ApplyBuildView /\ UNCHANGED appVars

SpecView == InitSpecView /\ [][NextView]_vars

----------------------------------------------------------------------------
(* Properties of the view builder, checked under SpecView *)

Built == vView # Null
View == vView[1]

Occurrences(s, x) == Cardinality({ i \in 1 .. Len(s) : s[i] = x })

FetchedRowsOf(uid) == { i \in 1 .. Len(vRows) : vRows[i]["user_id"] = Some(uid) }

InSnapshot(uid) == \E k \in 1 .. Len(vUsers) : Some(vUsers[k].id) = uid

\* A placeholder of account uid: id null, user_id the account's id, every
\* other header null.
IsPlaceholderOf(row, uid) ==
    /\ SeqToSet(View.headers) \cup {"id", "user_id"} = DOMAIN row
    /\ row["user_id"] = Some(uid)
    /\ \A c \in DOMAIN row : c # "user_id" => row[c] = Null

PlaceholdersOf(uid) ==
    { i \in 1 .. Len(View.data) : IsPlaceholderOf(View.data[i], uid) }

\* C1: the view of a denormalized relation holds at least one Display Row for
\* every account of the snapshot, so it has at least as many rows as the
\* snapshot has accounts.
C1_EveryAccountAppears ==
    Built =>
        /\ Len(View.data) >= Len(vUsers)
        /\ \A k \in 1 .. Len(vUsers) :
              \E i \in 1 .. Len(View.data) :
                  View.data[i]["user_id"] = Some(vUsers[k].id)

C1_Witness ==
    /\ Built
    /\ Len(vUsers) = 2
    /\ Len(View.data) > Len(vUsers)

\* C2: for every account of the snapshot the view holds exactly one
\* placeholder row when the account has no fetched row, and none when it has
\* one or more.
C2_PlaceholderCount ==
    Built =>
        \A k \in 1 .. Len(vUsers) :
            Cardinality(PlaceholdersOf(vUsers[k].id)) =
                IF FetchedRowsOf(vUsers[k].id) = {} THEN 1 ELSE 0

C2_Witness ==
    /\ Built
    /\ \E k \in 1 .. Len(vUsers) : FetchedRowsOf(vUsers[k].id) = {}
    /\ \E k \in 1 .. Len(vUsers) : FetchedRowsOf(vUsers[k].id) # {}

\* C3: every fetched row of an account of the snapshot appears exactly once in
\* the view, and every row of the view with a primary key is a fetched row.
C3_RealRowsExactlyOnce ==
    Built =>
        /\ \A i \in 1 .. Len(vRows) :
              InSnapshot(vRows[i]["user_id"]) =>
                  Occurrences(View.data, vRows[i]) = 1
        /\ \A i \in 1 .. Len(View.data) :
              View.data[i]["id"] # Null =>
                  \E j \in 1 .. Len(vRows) : vRows[j] = View.data[i]

C3_Witness ==
    /\ Built
    /\ Len(vUsers) = 2
    /\ \E k \in 1 .. Len(vUsers) : Cardinality(FetchedRowsOf(vUsers[k].id)) = 2

\* The email a row is sorted by: that of the account its user_id names in the
\* snapshot, the empty string when there is none.
EmailOfRow(row) ==
    IF \E k \in 1 .. Len(vUsers) : Some(vUsers[k].id) = row["user_id"]
    THEN LET k == CHOOSE k \in 1 .. Len(vUsers) : Some(vUsers[k].id) = row["user_id"]
         IN  IF vUsers[k].email = Null THEN << >> ELSE vUsers[k].email[1]
    ELSE << >>

OrderedPair(a, b) ==
    /\ ~StrLess(EmailOfRow(b), EmailOfRow(a))
    /\ EmailOfRow(a) = EmailOfRow(b) =>
          /\ ~(a["id"] = Null /\ b["id"] # Null)
          /\ (a["id"] # Null /\ b["id"] # Null) => a["id"][1] <= b["id"][1]

\* C4: the view is ordered by email ascending; within equal emails rows with
\* a primary key come before rows without, and primary keys ascend (ids equal
\* to 0 and accounts without an email included).
C4_Sorted ==
    Built =>
        \A i, j \in 1 .. Len(View.data) :
            i < j => OrderedPair(View.data[i], View.data[j])

\* C5: a fetched row whose user_id names no account of the snapshot is in the
\* view all the same, ahead of every row of an account with a non-empty email.
C5_OrphanRowsKept ==
    Built =>
        \A i \in 1 .. Len(vRows) :
            ~InSnapshot(vRows[i]["user_id"]) =>
                \E p \in 1 .. Len(View.data) :
                    /\ View.data[p] = vRows[i]
                    /\ \A q \in 1 .. Len(View.data) :
                          EmailOfRow(View.data[q]) # << >> => p < q

----------------------------------------------------------------------------
(* Properties of the account refresh and of the row fetch, checked under Spec *)

IsPage(resp) == resp # Null
NonEmptyPage(resp) == resp # Null /\ Len(resp[1]) > 0
EmptyPage(resp) == resp # Null /\ Len(resp[1]) = 0

\* The requests are listUsers(1, 100), listUsers(2, 100), ... in this order.
RequestsInOrder(requested) ==
    \A i \in 1 .. Len(requested) : requested[i] = [ page |-> i, perPage |-> 100 ]

RECURSIVE PagesOf(_)
PagesOf(responses) ==
    IF responses = << >> THEN << >>
    ELSE IF IsPage(Head(responses))
         THEN Head(responses)[1] \o PagesOf(Tail(responses))
         ELSE PagesOf(Tail(responses))

\* C6 as stated: no listUsers request follows a page shorter than the page
\* size.
C6_StopsAfterShortPage ==
    \A r \in refreshes :
        /\ RequestsInOrder(r.requested)
        /\ \A i \in 1 .. Len(r.responses) :
              IsPage(r.responses[i]) => Len(r.responses[i][1]) >= 100

\* C6, amended: a refresh requests pages of 100 from page 1 on, one request
\* per response received so far plus one; it goes on after every non-empty
\* page, however short, and ends at the first empty page, returned error or
\* thrown exception.
C6_StopsAfterEmptyPage ==
    /\ \A r \in refreshes :
          /\ RequestsInOrder(r.requested)
          /\ Len(r.requested) = Len(r.responses) + 1
          /\ \A i \in 1 .. Len(r.responses) : NonEmptyPage(r.responses[i])
    /\ lastRefresh # Null =>
          LET done == lastRefresh[1]
              n == Len(done.responses)
          IN  /\ RequestsInOrder(done.requested)
              /\ Len(done.requested) = n
              /\ \A i \in 1 .. n - 1 : NonEmptyPage(done.responses[i])
              /\ IF done.end = "empty" THEN EmptyPage(done.responses[n])
                 ELSE done.responses[n] = Null

C6_Witness ==
    \E r \in refreshes :
        /\ Len(r.requested) = 2
        /\ Len(r.responses[1][1]) = 1

\* C7: k non-empty pages, then an empty one, no error: the refresh ends after
\* the k+1 requests for pages 1 .. k+1 and the snapshot is pages 1 .. k
\* concatenated in page order.
C7_SnapshotIsAllPages ==
    (lastRefresh # Null /\ lastRefresh[1].end = "empty") =>
        LET done == lastRefresh[1]
            k == Cardinality({ i \in 1 .. Len(done.responses) :
                                  NonEmptyPage(done.responses[i]) })
        IN  /\ Len(done.requested) = k + 1
            /\ RequestsInOrder(done.requested)
            /\ \A i \in 1 .. k : NonEmptyPage(done.responses[i])
            /\ allUsers = PagesOf(done.responses)
            /\ \A r \in refreshes : r.id # done.id

C7_Witness ==
    /\ lastRefresh # Null
    /\ lastRefresh[1].end = "empty"
    /\ Len(lastRefresh[1].requested) = 3
    /\ Len(allUsers) = 2

\* The step in which a refresh ends on the error of its page request.
RefreshEndsOnError ==
    /\ lastRefresh' # lastRefresh
    /\ lastRefresh'[1].end = "error"

\* C8: when the request for page n returns an error the refresh requests no
\* further page, the snapshot becomes pages 1 .. n-1 concatenated, and the
\* step sets no toast and no fetch error message.
C8_PageErrorKeepsPages ==
    [][ RefreshEndsOnError =>
          LET done == lastRefresh'[1]
              n == Len(done.responses)
          IN  /\ Len(done.requested) = n
              /\ RequestsInOrder(done.requested)
              /\ done.responses[n] = Null
              /\ \A i \in 1 .. n - 1 : NonEmptyPage(done.responses[i])
              /\ allUsers' = PagesOf(SubSeq(done.responses, 1, n - 1))
              /\ \A r \in refreshes' : r.id # done.id
              /\ toast' = toast
              /\ error' = Null \/ error' = error ]_vars

C8_Witness ==
    /\ lastRefresh # Null
    /\ lastRefresh[1].end = "error"
    /\ Len(lastRefresh[1].requested) = 2
    /\ Len(allUsers) >= 1
    /\ toast = Null

\* C9: when a row fetch that no other fetch overlapped ends in an error, the
\* error state holds a message and no rows and no headers are displayed.
C9_FailedFetchShowsNothing ==
    (/\ lastFetch # Null
     /\ ~lastFetch[1].ok
     /\ lastFetch[1].alone
     /\ fetches = {}) =>
        /\ error # Null
        /\ data = << >>
        /\ headers = << >>

C9_Witness ==
    /\ lastFetch # Null
    /\ ~lastFetch[1].ok
    /\ lastFetch[1].alone
    /\ fetches = {}
    /\ Len(allUsers) > 0
    /\ selects > 0

\* C10: once every fetch in flight has resolved, the rows and headers
\* displayed are those of the response that resolved last, whether or not it
\* was requested last.
C10_LastResponseWins ==
    (/\ lastFetch # Null
     /\ lastFetch[1].ok
     /\ lastFetch[1].table # "users"
     /\ fetches = {}) =>
        LET last == lastFetch[1]
        IN  /\ data = ViewOf(last.table, last.rows, last.users).data
            /\ headers = ViewOf(last.table, last.rows, last.users).headers

\* Two fetches were in flight, both succeeded, the one requested first
\* resolved last, and its rows are displayed under another selected table.
C10_Witness ==
    /\ lastFetch # Null
    /\ lastFetch[1].ok
    /\ lastFetch[1].overtaken
    /\ fetches = {}
    /\ lastFetch[1].table # selectedTable
    /\ lastFetch[1].table # "users"
    /\ selectedTable # "users"
    /\ Len(data) > 0
    /\ data = ViewOf(lastFetch[1].table, lastFetch[1].rows, lastFetch[1].users).data

----------------------------------------------------------------------------
(* Properties of the dialogs and mutation handlers, checked under SpecCrud *)

IsJson(text) == JSONParse(text) # Null

RowKinds == {"insert", "update", "delete"}
AccountKinds == {"createUser", "updateUserById", "deleteUser"}

\* C11: a mutation whose local validation fails never issues a gateway
\* request: every request in flight carries an email and a password (account
\* creation), account metadata that is valid JSON (left empty, it stands for
\* {}), and, for referral_usage, a details text that is valid JSON.
C11_InvalidInputNeverSent ==
    \A m \in mutations :
        /\ m.kind = "createUser" =>
              /\ m.email # ""
              /\ m.password # ""
              /\ (m.text[1] = "" \/ IsJson(m.text[1]))
        /\ m.kind = "updateUserById" => IsJson(m.text[1])
        /\ (/\ m.kind \in {"insert", "update"}
            /\ m.table = "referral_usage"
            /\ m.text # Null
            /\ m.text[1] # "") => IsJson(m.text[1])

\* C12: the metadata passed to createUser and to updateUserById is always a
\* non-null, non-array JSON object.
C12_MetadataIsObject ==
    \A m \in mutations :
        m.kind \in {"createUser", "updateUserById"} =>
            m.metadata = Some(JsValue("object"))

\* The step in which a mutation handler resumes, a fetchData call fails, or
\* a fetchAllUsers call ends on a failed page request.
MutationSucceeds == lastMutation' # lastMutation /\ lastMutation'[1].ok
MutationFails == lastMutation' # lastMutation /\ ~lastMutation'[1].ok
FetchFails == lastFetch' # lastFetch /\ ~lastFetch'[1].ok
PageFails == lastRefresh' # lastRefresh /\ lastRefresh'[1].end # "empty"

Ids(calls) == { c.id : c \in calls }

C14_ErrorIsSurfacedOnce ==
    [][ MutationFails =>
          /\ lastMutation'[1].id \notin Ids(mutations')
          /\ Ids(fetches') = Ids(fetches)
          /\ refreshes' = refreshes
          /\ nextId' = nextId
          /\ isEditAddModalOpen' = isEditAddModalOpen
          /\ isUserModalOpen' = isUserModalOpen
          /\ isAddUserModalOpen' = isAddUserModalOpen
          /\ error' = error
          /\ IF lastMutation'[1].kind = "createUser"
             THEN /\ toast' = toast
                  /\ isAddUserModalOpen => addUserError' = Some("gateway")
             ELSE /\ toast' = ErrorToast
                  /\ addUserError' = addUserError
                  /\ userModalError' = userModalError ]_vars

\* A save of the row form failed: the form is still open under an error
\* toast and nothing is in flight.
C14_Witness ==
    /\ lastMutation # Null
    /\ ~lastMutation[1].ok
    /\ lastMutation[1].kind \in {"insert", "update"}
    /\ isEditAddModalOpen
    /\ toast = ErrorToast
    /\ fetches = {}
    /\ refreshes = {}
    /\ mutations = {}

\* C15: a failed gateway request is never reissued automatically. The step
\* in which a row fetch, a page request or a mutation fails starts no request
\* of that kind, and reports the failure through at most one channel; and a
\* failure message appears in no other step.
C15_NoRetry ==
    [][ /\ FetchFails =>
              /\ Ids(fetches') \subseteq Ids(fetches)
              /\ error' = FetchErrorMessage
              /\ toast' = toast
        /\ PageFails =>
              /\ refreshes' \subseteq refreshes
              /\ error' \in {Null, error}
              /\ toast' = toast
        /\ MutationFails =>
              /\ mutations' \subseteq mutations
              /\ error' = error
              /\ toast' = toast \/ addUserError' = addUserError
        /\ (error' # Null /\ error' # error) => FetchFails
        /\ (toast' # toast /\ toast'[1].type = "error") => MutationFails
      ]_vars

\* A row fetch has failed, then a mutation has failed, and nothing is in
\* flight.
C15_Witness ==
    /\ lastFetch # Null
    /\ ~lastFetch[1].ok
    /\ error = FetchErrorMessage
    /\ lastMutation # Null
    /\ ~lastMutation[1].ok
    /\ toast = ErrorToast
    /\ fetches = {}
    /\ refreshes = {}
    /\ mutations = {}

\* No request is in flight.
Idle == fetches = {} /\ refreshes = {} /\ mutations = {}

\* C16: no gateway error leaves the page blocked. The loading flag is false
\* whenever the page is mounted and no request is in flight, so it becomes
\* false once every request has been answered; and the step in which a row
\* fetch fails, or a mutation whose handler raised the flag fails, clears it
\* (handleCreateUser never touches it).
C16_LoadingClears ==
    /\ [](mounted /\ Idle => ~loading)
    /\ [][ /\ FetchFails => ~loading'
           /\ MutationFails =>
                 IF lastMutation'[1].kind = "createUser"
                 THEN loading' = loading
                 ELSE ~loading' ]_vars

\* An account update has failed while nothing else was in flight, and the
\* loading flag is false.
C16_Witness ==
    /\ mounted
    /\ Idle
    /\ ~loading
    /\ lastMutation # Null
    /\ ~lastMutation[1].ok
    /\ lastMutation[1].kind = "updateUserById"

----------------------------------------------------------------------------
(* Properties of the headers and of the plain rows *)

\* C18: for a denormalized relation the headers are the keys of the first
\* fetched row when a row was fetched and the relation's hardcoded list
\* otherwise; they are never empty, even when the relation has no rows.
\* Checked under SpecView.
C18_DenormHeaders ==
    (Built /\ vTable \in DenormTables) =>
        /\ Len(vRows) > 0 =>
              /\ SeqToSet(View.headers) = DOMAIN vRows[1]
              /\ Len(View.headers) = Cardinality(DOMAIN vRows[1])
        /\ Len(vRows) = 0 => View.headers = schemaHeaders(vTable)
        /\ View.headers # << >>

\* No row was fetched: the accounts' placeholders are shown under the
\* hardcoded headers.
C18_Witness ==
    /\ Built
    /\ vTable \in DenormTables
    /\ vRows = << >>
    /\ Len(vUsers) > 0
    /\ Len(View.data) = Len(vUsers)
    /\ View.headers = schemaHeaders(vTable)

\* C19: for referral_usage a successful fetch displays exactly the rows the
\* gateway returned to the id-descending query, in the order returned, with
\* no placeholder row and no grouping by account; the headers are the keys
\* of the first row, and empty when there is no row. Checked under SpecRows.
C19_ReferralRowsAsReturned ==
    (Built /\ vTable = "referral_usage") =>
        /\ View.data = vRows
        /\ IdDescending(View.data)
        /\ \A i \in 1 .. Len(View.data) : View.data[i]["id"] # Null
        /\ IF Len(vRows) = 0
           THEN View.headers = << >>
           ELSE /\ SeqToSet(View.headers) = DOMAIN vRows[1]
                /\ Len(View.headers) = Cardinality(DOMAIN vRows[1])

\* Two rows of two accounts, the account of the second row listed first in
\* the snapshot, and an account without rows: the rows are shown as returned.
C19_Witness ==
    /\ Built
    /\ vTable = "referral_usage"
    /\ Len(vRows) = 2
    /\ Len(vUsers) = 2
    /\ vRows[1]["user_id"] = Some(vUsers[2].id)
    /\ vRows[2]["user_id"] = Some(vUsers[2].id)
    /\ View.data = vRows

----------------------------------------------------------------------------
(* The account snapshot, checked under SpecCrud *)

\* C20: the account snapshot is written only by the account refresh: a step
\* changes allUsers only when a fetchAllUsers call ends its loop in it
\* (setAllUsers); the steps of the row fetch, of the row mutations and of the
\* account mutation handlers leave it as it was.
C20_SnapshotWrittenByRefreshOnly ==
    [][ /\ allUsers' # allUsers =>
              /\ lastRefresh' # lastRefresh
              /\ lastRefresh'[1].end \in {"empty", "error"}
        /\ (lastMutation' # lastMutation \/ mutations' # mutations) =>
              allUsers' = allUsers
        /\ (lastFetch' # lastFetch /\ lastRefresh' = lastRefresh) =>
              allUsers' = allUsers ]_vars

\* The gateway has deleted an account; the snapshot still lists it while the
\* refresh the handler started is in flight.
C20_Witness ==
    /\ lastMutation # Null
    /\ lastMutation[1].ok
    /\ lastMutation[1].kind = "deleteUser"
    /\ refreshes # {}
    /\ \E i \in 1 .. Len(allUsers) : Some(allUsers[i].id) = lastMutation[1].userId

----------------------------------------------------------------------------
(* The account refresh and the users table *)

\* The step in which a fetchAllUsers call completes.
RefreshCompletes == lastRefresh' # lastRefresh

\* C21: every call of the account refresh replaces the whole snapshot with
\* the accounts collected by that call: when the call completes, on an empty
\* page, on a returned page error or on an exception thrown by the client,
\* the snapshot is the concatenation of the pages the call received.
\* Checked under SpecCrud.
C21_RefreshReplacesSnapshot ==
    [][ RefreshCompletes =>
          allUsers' = PagesOf(lastRefresh'[1].responses) ]_vars

\* The key set of an account.
KeySetOfAccount(u) == {"id"} \cup (IF u.email # Null THEN {"email"} ELSE {})

\* C22: when the users table is selected a fetch issues no gateway request
\* and sets the displayed rows to exactly the current account snapshot; the
\* headers are the keys of the first account, and empty when the snapshot
\* is empty. Checked under Spec, where every step that names a new call
\* starts a fetch.
C22_UsersTableShowsSnapshot ==
    [][ (nextId' # nextId /\ selectedTable' = "users") =>
          /\ Ids(fetches') \subseteq Ids(fetches)
          /\ lastFetch' # lastFetch
          /\ lastFetch'[1].table = "users"
          /\ data' = allUsers'
          /\ IF Len(allUsers') = 0 THEN headers' = << >>
             ELSE /\ SeqToSet(headers') = KeySetOfAccount(allUsers'[1])
                  /\ Len(headers') = Cardinality(KeySetOfAccount(allUsers'[1]))
          /\ ~loading'
          /\ error' = Null ]_vars

\* The users table was selected while the refresh was in flight; the refresh
\* has completed and the two accounts of the new snapshot are shown.
C22_Witness ==
    /\ selectedTable = "users"
    /\ lastFetch # Null
    /\ lastFetch[1].table = "users"
    /\ lastRefresh # Null
    /\ lastFetch[1].id > lastRefresh[1].id
    /\ fetches = {}
    /\ Len(allUsers) = 2
    /\ data = allUsers
    /\ headers = << "id", "email" >>

----------------------------------------------------------------------------
(* The refresh and the row fetches it overlaps *)

\* The step in which a refresh writes the snapshot.
RefreshWrites == RefreshCompletes /\ lastRefresh'[1].end \in {"empty", "error"}

C24_EveryAccountShown ==
    (/\ mounted
     /\ selects = 0
     /\ selectedTable \in DenormTables
     /\ fetches = {}
     /\ refreshes = {}
     /\ lastRefresh # Null
     /\ lastRefresh[1].end = "empty"
     /\ lastFetch # Null
     /\ lastFetch[1].ok
     /\ error = Null) =>
        \A k \in 1 .. Len(allUsers) :
            \E i \in 1 .. Len(data) : data[i]["user_id"] = Some(allUsers[k].id)

\* C25: in every reachable state, overlapping fetches included, a fetch
\* error message implies that the displayed row list is empty. Checked under
\* Spec.
C25_ErrorMeansNoRows == error # Null => data = << >>

\* The mutations whose handler raises the loading flag.
LoadingManaged == {"delete", "insert", "update", "updateUserById", "deleteUser"}

\* C26: the loading flag is true whenever a row fetch or a loading-managed
\* mutation is in flight, also when several of them overlap. Checked under
\* SpecCrud.
C26_LoadingWhileInFlight ==
    (fetches # {} \/ \E m \in mutations : m.kind \in LoadingManaged) => loading

\* C27: with two refreshes in flight at once, every value written to the
\* snapshot is the pages collected by one call, in page order, and when the
\* call that was started first completes last, with nothing left in flight,
\* the snapshot is the result of that call. Checked under SpecCrud.
C27_RefreshesDoNotMix ==
    [][ /\ allUsers' # allUsers =>
              /\ RefreshCompletes
              /\ \E r \in refreshes :
                    /\ r.id = lastRefresh'[1].id
                    /\ allUsers' = PagesOf(r.responses)
        /\ (/\ RefreshCompletes
            /\ refreshes' = {}
            /\ lastRefresh # Null
            /\ lastRefresh[1].id > lastRefresh'[1].id) =>
              allUsers' = PagesOf(lastRefresh'[1].responses) ]_vars

----------------------------------------------------------------------------
(* Properties of the row actions and of the row form *)

\* The step in which the row form is opened.
FormOpens == isEditAddModalOpen' /\ ~isEditAddModalOpen

\* C28: updates and deletes are issued with the non-null primary key of a
\* real row only. A delete request is sent after the operator has confirmed,
\* for a displayed row that has a primary key; an update is sent from the
\* edit form for the row it was opened on; the edit form opens on a displayed
\* row that has a primary key; and a placeholder row opens the add form only,
\* pre-filled with the user_id of its account. Checked under SpecCrud.
C28_OnlyRealRowsMutated ==
    [][ /\ \A m \in mutations' \ mutations :
              /\ m.kind = "delete" =>
                    /\ m.confirmed
                    /\ m.rowId # Null
                    /\ \E i \in 1 .. Len(data) :
                          IsRow(data[i]) /\ data[i]["id"] = m.rowId
              /\ m.kind = "update" =>
                    /\ modalMode = "edit"
                    /\ m.rowId # Null
                    /\ m.rowId = currentRow[1]["id"]
        /\ FormOpens =>
              IF modalMode' = "edit"
              THEN \E i \in 1 .. Len(data) :
                       /\ currentRow' = Some(data[i])
                       /\ data[i]["id"] # Null
              ELSE \/ currentRow' = Null
                   \/ \E i \in 1 .. Len(data) :
                         /\ selectedTable \in DenormTables
                         /\ data[i]["id"] = Null
                         /\ currentRow' = Some([ user_id |-> data[i]["user_id"] ])
                         /\ formData'["user_id"] = data[i]["user_id"]
      ]_vars

\* C29: the fields sent by a row update never include id, created_at,
\* updated_at or inserted_at; the update is sent in edit mode with the id of
\* the row the form holds, and the row and the mode of an open form do not
\* change. Checked under SpecForm.
C29_UpdateKeepsPrimaryKey ==
    [][ /\ \A m \in mutations' \ mutations :
              m.kind = "update" =>
                  /\ m.fields \cap {"id", "created_at", "updated_at", "inserted_at"} = {}
                  /\ modalMode = "edit"
                  /\ m.rowId = currentRow[1]["id"]
        /\ (isEditAddModalOpen /\ isEditAddModalOpen') =>
              /\ currentRow' = currentRow
              /\ modalMode' = modalMode
        /\ (FormOpens /\ modalMode' = "edit") =>
              \E i \in 1 .. Len(data) : currentRow' = Some(data[i])
      ]_vars

\* The operator has changed the plan of a row that has a created_at column
\* and the update is in flight with the new plan among its fields.
C29_Witness ==
    /\ isEditAddModalOpen
    /\ modalMode = "edit"
    /\ "created_at" \in DOMAIN currentRow[1]
    /\ "plan" \in DOMAIN formData
    /\ formData["plan"] = Some("silver")
    /\ \E m \in mutations :
          /\ m.kind = "update"
          /\ m.rowId = currentRow[1]["id"]
          /\ "plan" \in m.fields
          /\ "user_id" \in m.fields

\* A step of a row fetch: a fetchData call starts or resumes.
FetchStep == lastFetch' # lastFetch \/ Ids(fetches') # Ids(fetches)

\* C30: while the row form stays open, a step of a background row fetch
\* leaves the values the operator has entered in the form as they are.
\* Checked under SpecForm.
C30_RefetchKeepsInput ==
    [][ (isEditAddModalOpen /\ isEditAddModalOpen' /\ FetchStep) =>
          \A name \in TypedColumns :
              (/\ name \in DOMAIN formData
               /\ formData[name] \in { Some(value) : value \in TypedValues }) =>
                  /\ name \in DOMAIN formData'
                  /\ formData'[name] = formData[name] ]_vars

====
